---- MODULE Spec2Model ----
(***************************************************************************)
(* Model of maze_solver: the clamped grid topology and policy iteration of *)
(* dynamic_prog.py, the masked topology and Q-learning of q_learning.py,   *)
(* and the route walks of utils.py / q_learning.py.                        *)
(*                                                                         *)
(* Numbers.  The program computes in binary floating point.  The model     *)
(* computes in fixed point: a value x of V is the integer x * Scale, a     *)
(* probability p of pi is the integer p * PiDen, a value of Q is the       *)
(* integer x * QScale, and GAMMA, ALPHA, EPSILON and the random draw are   *)
(* fractions over a common denominator.  Every product is rounded to the   *)
(* nearest unit, as a float product is rounded to the nearest float.       *)
(***************************************************************************)
EXTENDS Integers, Sequences, FiniteSets, TLC

VARIABLES
    mode,      \* which entry point of the package this behaviour runs
    pc,        \* position inside that entry point
    L,         \* grid_size
    rewards,   \* the flattened reward grid
    GAMMA,     \* discount, numerator over Den
    DELTA,     \* threshold, in units of V (dynamic_prog) or of Q (q_learning)
    V,         \* state values
    pi,        \* policy matrix
    old_pi,    \* policy_iteration's copy of the previous policy
    v,         \* policy_evaluation's copy of V, taken before each update
    i,         \* policy_evaluation's for-loop index
    Vsweep,    \* history: V as it was when the current sweep began
    evalPi,    \* history: the policy the last policy_evaluation ran under
    iters,     \* history: completed passes of policy_iteration's loop body
    actions,   \* get_actions_from_pi's result
    state,     \* the walking state of plot_maze_solution / solve / get_route
    route,     \* the states visited by the current walk
    Vret,      \* history: V as the last policy_evaluation returned it
    choose,    \* choose_one, as passed to get_policy_from_V
    topo,      \* results of the three topology functions for (state, L)
    ALPHA,     \* learning rate, numerator over Den
    EPSILON,   \* exploration rate, numerator over Den
    Q,         \* the Q-table
    Q_old,     \* solve's copy of Q from before the episode
    last,      \* history: the last step taken by solve or get_route
    draws,     \* the values np.random.uniform() can return in this behaviour
    budget     \* <<n>>: solve may take n more steps; <<>>: it has no cap

dpVars == <<V, pi, old_pi, v, i, Vsweep, evalPi, iters, actions, Vret, choose>>
qVars == <<ALPHA, EPSILON, Q, Q_old, last, draws, budget>>
vars == <<mode, pc, L, rewards, GAMMA, DELTA, V, pi, old_pi, v, i, Vsweep,
          evalPi, iters, actions, state, route, Vret, choose, topo, ALPHA,
          EPSILON, Q, Q_old, last, draws, budget>>

----------------------------------------------------------------------------
(* Fixed-point arithmetic *)

Scale == 10^6          \* units of V per 1.0
PiDen == 3 * 4         \* units of pi per 1.0: 1/1, 1/2, 1/3, 1/4 are exact
Den == 10              \* denominator of GAMMA

Abs(x) == IF x < 0 THEN -x ELSE x

\* x * n / d rounded to the nearest integer, computed without leaving 32 bits
MulFrac(x, n, d) ==
    LET q == x \div d
        r == x % d
    IN  q * n + ((2 * r * n + d) \div (2 * d))

RECURSIVE SumTo(_, _)
\* f[0] + ... + f[n-1]
SumTo(f, n) == IF n = 0 THEN 0 ELSE SumTo(f, n - 1) + f[n - 1]

Actions == 0..3        \* up, down, left, right

\* numpy.max over an array indexed by the four actions
Max4(q) ==
    LET m01 == IF q[0] >= q[1] THEN q[0] ELSE q[1]
        m23 == IF q[2] >= q[3] THEN q[2] ELSE q[3]
    IN  IF m01 >= m23 THEN m01 ELSE m23

\* numpy.argmax over such an array: the first index holding the maximum
ArgMax4(q) == CHOOSE k \in Actions : q[k] = Max4(q) /\ \A j \in 0..(k - 1) : q[j] < q[k]

----------------------------------------------------------------------------
(* dynamic_prog.py *)

NStates(n) == n * n
States(n) == 0..(NStates(n) - 1)
Terminal(n) == NStates(n) - 1

\* the next state of each action, an out-of-grid move resolving to s itself
get_possible_actions_for_state(s, grid_size) ==
    LET up    == IF s - grid_size < 0 THEN s ELSE s - grid_size
        down  == IF s + grid_size >= grid_size * grid_size THEN s ELSE s + grid_size
        left  == IF s % grid_size = 0 THEN s ELSE s - 1
        right == IF s % grid_size = grid_size - 1 THEN s ELSE s + 1
    IN  [a \in Actions |-> CASE a = 0 -> up [] a = 1 -> down [] a = 2 -> left [] OTHER -> right]

\* sum_values with the value term forgotten: sum_values = rs_for_as
sum_values_rewards_only(s, Vv, rw, g, n) ==
    LET pa == get_possible_actions_for_state(s, n)
    IN  [k \in Actions |-> rw[pa[k]] * Scale]

\* rs_for_as + GAMMA*vs_for_as, in units of V
sum_values(s, Vv, rw, g, n) ==
    LET pa == get_possible_actions_for_state(s, n)
    IN  [k \in Actions |-> rw[pa[k]] * Scale + MulFrac(Vv[pa[k]], g, Den)]

\* get_pi_for_state splitting ties over the distinct best next-states
get_pi_for_state_distinct(s, Vv, rw, g, choose_one, n) ==
    LET pa == get_possible_actions_for_state(s, n)
        sv == sum_values(s, Vv, rw, g, n)
        best == {pa[k] : k \in {j \in Actions : sv[j] = Max4(sv)}}
    IN  IF ~choose_one
        THEN [t \in States(n) |-> IF t \in best THEN PiDen \div Cardinality(best) ELSE 0]
        ELSE [t \in States(n) |-> IF t = pa[ArgMax4(sv)] THEN PiDen ELSE 0]

\* get_pi_for_state with pi_state[best_a] = 1.0/len(best_as) in place of +=
get_pi_for_state_assign(s, Vv, rw, g, choose_one, n) ==
    LET pa == get_possible_actions_for_state(s, n)
        sv == sum_values(s, Vv, rw, g, n)
        max_as == {k \in Actions : sv[k] = Max4(sv)}
    IN  IF ~choose_one
        THEN [t \in States(n) |->
                 IF \E k \in max_as : pa[k] = t THEN PiDen \div Cardinality(max_as) ELSE 0]
        ELSE [t \in States(n) |-> IF t = pa[ArgMax4(sv)] THEN PiDen ELSE 0]

\* best_as holds one entry per maximising action, so a next-state that several
\* of them resolve to is given 1.0/len(best_as) once for each
get_pi_for_state(s, Vv, rw, g, choose_one, n) ==
    LET pa == get_possible_actions_for_state(s, n)
        sv == sum_values(s, Vv, rw, g, n)
        top == Max4(sv)
        max_as == {k \in Actions : sv[k] = top}
        share == PiDen \div Cardinality(max_as)
        best_a == pa[ArgMax4(sv)]
    IN  IF ~choose_one
        THEN [t \in States(n) |-> Cardinality({k \in max_as : pa[k] = t}) * share]
        ELSE [t \in States(n) |-> IF t = best_a THEN PiDen ELSE 0]

\* get_policy_from_V looping over range(0, len(V)), the terminal row included
get_policy_from_V_all_rows(Vv, rw, g, choose_one, n) ==
    [s \in States(n) |-> get_pi_for_state(s, Vv, rw, g, choose_one, n)]

get_policy_from_V(Vv, rw, g, choose_one, n) ==
    [s \in States(n) |->
        IF s = Terminal(n) THEN [t \in States(n) |-> 0]
        ELSE get_pi_for_state(s, Vv, rw, g, choose_one, n)]

\* np.sum(pi[i]*(rewards+GAMMA*v)), in units of V
Backup(row, vv, rw, g, n) ==
    LET x == [t \in States(n) |-> rw[t] * Scale + MulFrac(vv[t], g, Den)]
        whole == [t \in States(n) |-> row[t] * (x[t] \div PiDen)]
        part  == [t \in States(n) |-> row[t] * (x[t] % PiDen)]
    IN  SumTo(whole, NStates(n)) + MulFrac(SumTo(part, NStates(n)), 1, PiDen)

\* np.linalg.norm(a - b) > d, decided without squaring a large difference
NormExceeds(a, b, d, n) ==
    \/ \E t \in States(n) : Abs(a[t] - b[t]) > d
    \/ SumTo([t \in States(n) |-> (a[t] - b[t]) * (a[t] - b[t])], NStates(n)) > d * d

----------------------------------------------------------------------------
(* Inputs *)

PathReward == -1       \* reward of a traversable cell
WallReward == -100     \* reward of a wall cell
GridSide == 3          \* side of the grids the engines are run on
MaxWalk == 6           \* longest route walk followed
WallCells == {1, 4}    \* cells that may hold a wall in the grids tried

NoWalls == [s \in States(GridSide) |-> PathReward]
RewardGrids ==
    {[s \in States(GridSide) |-> IF s \in W THEN WallReward ELSE PathReward] :
        W \in SUBSET WallCells}
Gammas == {5, 9}       \* GAMMA = 0.5, 0.9
Deltas == {1, 1000}    \* DELTA = 1e-6, 1e-3

\* the Q-learning variables of a behaviour that never runs solve
QIdle ==
    /\ ALPHA = 0 /\ EPSILON = 0 /\ Q = <<>> /\ Q_old = <<>> /\ last = <<>>
    /\ draws = {} /\ budget = <<>>

Zeros(n) == [s \in States(n) |-> 0]
Ones(n) == [s \in States(n) |-> [t \in States(n) |-> PiDen]]

----------------------------------------------------------------------------
(* policy_iteration, then plot_maze_solution's walk along the policy *)

InitPI ==
    /\ mode = "policy_iteration"
    /\ L = GridSide
    /\ rewards \in RewardGrids
    /\ GAMMA \in Gammas
    /\ DELTA \in Deltas
    /\ V = Zeros(L)
    /\ pi = get_policy_from_V(Zeros(L), rewards, GAMMA, FALSE, L)
    /\ old_pi = Ones(L)
    /\ v = Zeros(L)
    /\ i = 0
    /\ Vsweep = Zeros(L)
    /\ evalPi = Ones(L)
    /\ iters = 0
    /\ actions = <<>>
    /\ state = 0
    /\ route = <<>>
    /\ Vret = Zeros(L)
    /\ choose = FALSE
    /\ topo = <<>>
    /\ QIdle
    /\ pc = "while_pi"

\* while (old_pi==pi).all()==False: old_pi = deepcopy(pi); enter policy_evaluation
LoopTest ==
    /\ mode = "policy_iteration" /\ pc = "while_pi"
    /\ IF old_pi # pi
       THEN /\ old_pi' = pi
            /\ evalPi' = pi
            /\ Vsweep' = V
            /\ i' = 0
            /\ pc' = "for_i"
            /\ UNCHANGED <<V, pi, v, iters, actions, Vret, choose>>
       ELSE /\ pc' = "returned"
            /\ UNCHANGED dpVars
    /\ UNCHANGED <<mode, L, rewards, GAMMA, DELTA, state, route, topo, qVars>>

\* one pass of the for loop: v = deepcopy(V); V[i] = np.sum(pi[i]*(rewards+GAMMA*v))
EvalStep ==
    /\ mode = "policy_iteration" /\ pc = "for_i"
    /\ i < NStates(L) - 1
    /\ v' = V
    /\ V' = [V EXCEPT ![i] = Backup(pi[i], V, rewards, GAMMA, L)]
    /\ i' = i + 1
    /\ UNCHANGED <<mode, pc, L, rewards, GAMMA, DELTA, pi, old_pi, Vsweep, evalPi,
                   iters, actions, state, route, Vret, choose, topo, qVars>>

\* the for loop is over: diff = np.linalg.norm(v-V); while diff>DELTA
SweepDiffExceeds == NormExceeds(v, V, DELTA, L)

SweepEnd ==
    /\ mode = "policy_iteration" /\ pc = "for_i"
    /\ i = NStates(L) - 1
    /\ IF SweepDiffExceeds
       THEN /\ i' = 0
            /\ Vsweep' = V
            /\ pc' = "for_i"
            /\ UNCHANGED Vret
       ELSE /\ pc' = "improve"
            /\ Vret' = V
            /\ UNCHANGED <<i, Vsweep>>
    /\ UNCHANGED <<mode, L, rewards, GAMMA, DELTA, V, pi, old_pi, v, evalPi, iters,
                   actions, state, route, choose, topo, qVars>>

\* the improvement step called with choose_one=False
ImprovedPolicyTieSplit == get_policy_from_V(V, rewards, GAMMA, FALSE, L)

\* pi = get_policy_from_V(V, rewards, GAMMA, choose_one=True)
ImprovedPolicy == get_policy_from_V(V, rewards, GAMMA, TRUE, L)

Improve ==
    /\ mode = "policy_iteration" /\ pc = "improve"
    /\ pi' = ImprovedPolicy
    /\ choose' = TRUE
    /\ iters' = iters + 1
    /\ pc' = "while_pi"
    /\ UNCHANGED <<mode, L, rewards, GAMMA, DELTA, V, old_pi, v, i, Vsweep, evalPi,
                   actions, state, route, Vret, topo, qVars>>

RECURSIVE SampleRows(_, _, _)
\* the arrays np.random.choice can fill for rows 0..k-1: row s draws a t with p[s][t] > 0
SampleRows(p, k, n) ==
    IF k = 0 THEN {<<>>}
    ELSE {Append(a, t) : a \in SampleRows(p, k - 1, n), t \in {u \in States(n) : p[k - 1][u] > 0}}

\* actions[s] is held at index s+1 of the sequence
get_actions_from_pi(p, n) == SampleRows(p, NStates(n) - 1, n)

\* plot_maze_solution: actions = get_actions_from_pi(pi); state = start
GetActions ==
    /\ mode = "policy_iteration" /\ pc = "returned"
    /\ actions' \in get_actions_from_pi(pi, L)
    /\ state' = 0
    /\ route' = <<0>>
    /\ pc' = "walk"
    /\ UNCHANGED <<mode, L, rewards, GAMMA, DELTA, V, pi, old_pi, v, i, Vsweep,
                   evalPi, iters, Vret, choose, topo, qVars>>

\* while state != len(old_maze)-1: state = actions[state]
Walk ==
    /\ mode = "policy_iteration" /\ pc = "walk"
    /\ state # Terminal(L)
    /\ Len(route) <= MaxWalk
    /\ state' = actions[state + 1]
    /\ route' = Append(route, actions[state + 1])
    /\ UNCHANGED <<mode, pc, L, rewards, GAMMA, DELTA, V, pi, old_pi, v, i, Vsweep,
                   evalPi, iters, actions, Vret, choose, topo, qVars>>

WalkDone ==
    /\ mode = "policy_iteration" /\ pc = "walk"
    /\ state = Terminal(L)
    /\ pc' = "plotted"
    /\ UNCHANGED <<mode, L, rewards, GAMMA, DELTA, state, route, topo, qVars>>
    /\ UNCHANGED dpVars

NextPI == LoopTest \/ EvalStep \/ SweepEnd \/ Improve \/ GetActions \/ Walk \/ WalkDone

SpecPI == InitPI /\ [][NextPI]_vars

\* the interpreter keeps running the loops it is in
SpecPIFair == InitPI /\ [][NextPI]_vars /\ WF_vars(NextPI)

----------------------------------------------------------------------------
(* get_policy_from_V called on its own, on any value vector *)

MaxValue == 1          \* V[s] ranges over 0, -1.0, ..., -MaxValue.0
ValueVectors == [States(GridSide) -> {-k * Scale : k \in 0..MaxValue}]

InitPolicy ==
    /\ mode = "get_policy_from_V"
    /\ pc = "call"
    /\ L = GridSide
    /\ rewards \in RewardGrids
    /\ GAMMA \in Gammas
    /\ DELTA = 0
    /\ V \in ValueVectors
    /\ pi = [s \in States(L) |-> Zeros(L)]
    /\ old_pi = <<>> /\ v = <<>> /\ i = 0 /\ Vsweep = <<>> /\ evalPi = <<>>
    /\ iters = 0 /\ actions = <<>> /\ state = 0 /\ route = <<>>
    /\ Vret = <<>> /\ choose = FALSE /\ topo = <<>>
    /\ QIdle

ExtractPolicy ==
    /\ mode = "get_policy_from_V" /\ pc = "call"
    /\ \E choose_one \in BOOLEAN :
          /\ choose' = choose_one
          /\ pi' = get_policy_from_V(V, rewards, GAMMA, choose_one, L)
    /\ pc' = "extracted"
    /\ UNCHANGED <<mode, L, rewards, GAMMA, DELTA, V, old_pi, v, i, Vsweep, evalPi,
                   iters, actions, state, route, Vret, topo, qVars>>

SpecDP == (InitPI \/ InitPolicy) /\ [][NextPI \/ ExtractPolicy]_vars

----------------------------------------------------------------------------
(* q_learning.py *)

QScale == 10^4         \* units of Q per 1.0
Sentinel == -(10^9)    \* stands for -1e24, far below every value Q can take
QWallReward == -1000   \* what solve turns a reward of -100 into

\* get_possible_actions with s > grid_size in place of s >= grid_size
get_possible_actions_strict(s, grid_size) ==
    {a \in Actions :
        \/ a = 0 /\ s > grid_size
        \/ a = 1 /\ s < grid_size * grid_size - grid_size
        \/ a = 2 /\ s % grid_size # 0
        \/ a = 3 /\ s % grid_size # grid_size - 1}

\* the actions the function appends to its list
get_possible_actions(s, grid_size) ==
    {a \in Actions :
        \/ a = 0 /\ s >= grid_size
        \/ a = 1 /\ s < grid_size * grid_size - grid_size
        \/ a = 2 /\ s % grid_size # 0
        \/ a = 3 /\ s % grid_size # grid_size - 1}

get_impossible_actions(s, grid_size) ==
    {a \in Actions :
        \/ a = 0 /\ s < grid_size
        \/ a = 1 /\ s >= grid_size * grid_size - grid_size
        \/ a = 2 /\ s % grid_size = 0
        \/ a = 3 /\ s % grid_size = grid_size - 1}

generate_q(grid_size) ==
    [s \in States(grid_size) |->
        [a \in Actions |-> IF a \in get_impossible_actions(s, grid_size) THEN Sentinel ELSE 0]]

\* take_action exploring over all four actions, not over get_possible_actions
take_action_unmasked(s, q, eps, rand, grid_size) ==
    IF rand > eps THEN {ArgMax4(q[s])} ELSE Actions

\* the actions take_action can return when np.random.uniform() gives rand/Den
take_action(s, q, eps, rand, grid_size) ==
    IF rand > eps THEN {ArgMax4(q[s])} ELSE get_possible_actions(s, grid_size)

get_next_state(s, a, grid_size) ==
    CASE a = 0 -> s - grid_size
      [] a = 1 -> s + grid_size
      [] a = 2 -> s - 1
      [] OTHER -> s + 1

\* r = maze.flatten(); r[r==-100] = -1000
RemappedRewards(maze) == [s \in DOMAIN maze |-> IF maze[s] = WallReward THEN QWallReward ELSE maze[s]]

\* numpy indexing: a negative index counts from the end
Wrapped(k, n) == IF k < 0 THEN k + n ELSE k
InRange(k, n) == -n <= k /\ k < n

\* Q[state,action] + ALPHA*(r[next_state] + GAMMA*np.max(Q[next_state]) - Q[state,action])
TDUpdate(q, r, s, a, ns, alpha, gamma) ==
    q[s][a] + MulFrac(r[ns] * QScale + MulFrac(Max4(q[ns]), gamma, Den) - q[s][a], alpha, Den)

\* np.max(np.abs(Q-Q_old)) > DELTA
TableDiffExceeds(q, qo, d, n) ==
    \E s \in States(n), a \in Actions : Abs(q[s][a] - qo[s][a]) > d

----------------------------------------------------------------------------
(* The three topology functions called on their own *)

MaxSide == 7           \* largest grid side probed
OddSides == {n \in 1..MaxSide : n % 2 = 1}

InitTopo ==
    /\ mode = "topology"
    /\ pc = "call"
    /\ L \in OddSides
    /\ state \in States(L)
    /\ topo = <<>>
    /\ rewards = <<>> /\ GAMMA = 0 /\ DELTA = 0 /\ V = <<>> /\ pi = <<>>
    /\ old_pi = <<>> /\ v = <<>> /\ i = 0 /\ Vsweep = <<>> /\ evalPi = <<>>
    /\ iters = 0 /\ actions = <<>> /\ route = <<>> /\ Vret = <<>> /\ choose = FALSE
    /\ QIdle

Probe ==
    /\ mode = "topology" /\ pc = "call"
    /\ topo' = [clamped    |-> get_possible_actions_for_state(state, L),
                possible   |-> get_possible_actions(state, L),
                impossible |-> get_impossible_actions(state, L)]
    /\ pc' = "probed"
    /\ UNCHANGED <<mode, L, rewards, GAMMA, DELTA, state, route, qVars>>
    /\ UNCHANGED dpVars

SpecTopo == InitTopo /\ [][Probe]_vars

----------------------------------------------------------------------------
(* solve, then get_route on the table it returns *)

MaxSteps == 5          \* steps a capped run of solve takes, over all its episodes
MaxRoute == 4          \* longest get_route walk followed
QMazes == {[s \in States(GridSide) |-> IF s \in W THEN WallReward ELSE PathReward] :
              W \in {{}, {4}}}
QGammas == {0, 9}      \* GAMMA = 0, 0.9
Alphas == {5, 10}      \* ALPHA = 0.5, 1
Epsilons == {0, 5, 10} \* EPSILON = 0, 0.5, 1
QDeltas == {1000, 10000} \* DELTA = 0.1, 1
Rands == {0, 3, 7}     \* np.random.uniform() = 0.0, 0.3, 0.7
RouteStarts == {0, 4}  \* start cells tried by get_route

InitSolve(cap, mazes, rands) ==
    /\ mode = "solve"
    /\ L = GridSide
    /\ rewards \in mazes
    /\ draws = rands
    /\ GAMMA \in QGammas
    /\ ALPHA \in Alphas
    /\ EPSILON \in Epsilons
    /\ DELTA \in QDeltas
    /\ Q = generate_q(L)
    /\ Q_old = [s \in States(L) |-> [a \in Actions |-> QScale]]
    /\ state = 0
    /\ route = <<>>
    /\ last = <<>>
    /\ budget = cap
    /\ pc = "while_q"
    /\ V = <<>> /\ pi = <<>> /\ old_pi = <<>> /\ v = <<>> /\ i = 0 /\ Vsweep = <<>>
    /\ evalPi = <<>> /\ iters = 0 /\ actions = <<>> /\ Vret = <<>> /\ choose = FALSE
    /\ topo = <<>>

InitQ == InitSolve(<<MaxSteps>>, QMazes, Rands)

\* while np.max(np.abs(Q-Q_old)) > DELTA: Q_old = deepcopy(Q); state = 0
OuterTest ==
    /\ mode = "solve" /\ pc = "while_q"
    /\ IF TableDiffExceeds(Q, Q_old, DELTA, L)
       THEN /\ Q_old' = Q
            /\ state' = 0
            /\ pc' = "episode"
       ELSE /\ pc' = "solved"
            /\ UNCHANGED <<Q_old, state>>
    /\ UNCHANGED <<mode, L, rewards, GAMMA, DELTA, route, topo, ALPHA, EPSILON, Q, last,
                   draws, budget>>
    /\ UNCHANGED dpVars

\* one pass of the inner loop with the draw rand and the action a it led to
Step(rand, a) ==
    /\ mode = "solve" /\ pc = "episode"
    /\ state # Terminal(L)
    /\ budget # <<0>>
    /\ a \in take_action(state, Q, EPSILON, rand, L)
    /\ LET next_state == get_next_state(state, a, L)
           r == RemappedRewards(rewards)
       IN  IF InRange(next_state, NStates(L))
           THEN /\ Q' = [Q EXCEPT ![state][a] =
                            TDUpdate(Q, r, state, a, Wrapped(next_state, NStates(L)),
                                     ALPHA, GAMMA)]
                /\ state' = next_state
                /\ pc' = IF next_state \in States(L) THEN "episode" ELSE "off_grid"
           ELSE /\ pc' = "IndexError"
                /\ UNCHANGED <<Q, state>>
    /\ last' = [s |-> state, a |-> a, ns |-> get_next_state(state, a, L),
                explored |-> ~(rand > EPSILON)]
    /\ budget' = IF budget = <<>> THEN budget ELSE <<budget[1] - 1>>
    /\ UNCHANGED <<mode, L, rewards, GAMMA, DELTA, route, topo, ALPHA, EPSILON, Q_old, draws>>
    /\ UNCHANGED dpVars

TakeStep == \E rand \in draws, a \in Actions : Step(rand, a)

\* the inner while ends: state == grid_size**2-1
EpisodeEnd ==
    /\ mode = "solve" /\ pc = "episode"
    /\ state = Terminal(L)
    /\ pc' = "while_q"
    /\ UNCHANGED <<mode, L, rewards, GAMMA, DELTA, state, route, topo, qVars>>
    /\ UNCHANGED dpVars

NextSolve == OuterTest \/ TakeStep \/ EpisodeEnd

\* get_route(Q, maze, start_x, start_y): state = start; sequence = [state]
RouteStart ==
    /\ mode = "solve" /\ pc = "solved"
    /\ \E start \in RouteStarts :
          /\ state' = start
          /\ route' = <<start>>
    /\ last' = <<>>
    /\ pc' = "route"
    /\ UNCHANGED <<mode, L, rewards, GAMMA, DELTA, topo, ALPHA, EPSILON, Q, Q_old, draws,
                   budget>>
    /\ UNCHANGED dpVars

\* action = take_action(state, Q, 0); state = get_next_state(...); sequence.append(state)
RouteMove(rand, a) ==
    /\ mode = "solve" /\ pc = "route"
    /\ state # Terminal(L)
    /\ Len(route) <= MaxRoute
    /\ a \in take_action(state, Q, 0, rand, L)
    /\ LET next_state == get_next_state(state, a, L)
       IN  /\ state' = next_state
           /\ route' = Append(route, next_state)
           /\ pc' = IF next_state \in States(L) THEN "route" ELSE "off_grid"
    /\ last' = [s |-> state, a |-> a, ns |-> get_next_state(state, a, L),
                explored |-> ~(rand > 0)]
    /\ UNCHANGED <<mode, L, rewards, GAMMA, DELTA, topo, ALPHA, EPSILON, Q, Q_old, draws,
                   budget>>
    /\ UNCHANGED dpVars

RouteStep == \E rand \in draws, a \in Actions : RouteMove(rand, a)

RouteDone ==
    /\ mode = "solve" /\ pc = "route"
    /\ state = Terminal(L)
    /\ pc' = "routed"
    /\ UNCHANGED <<mode, L, rewards, GAMMA, DELTA, state, route, topo, qVars>>
    /\ UNCHANGED dpVars

NextQ == NextSolve \/ RouteStart \/ RouteStep \/ RouteDone

SpecQ == InitQ /\ [][NextQ]_vars

\* either engine, run on its own
SpecEngines == (InitPI \/ InitQ) /\ [][NextPI \/ NextQ]_vars

----------------------------------------------------------------------------
(* solve without a cap on its steps.  Every draw is positive here: a draw  *)
(* of exactly 0.0 makes take_action explore whatever EPSILON is, which for *)
(* EPSILON > 0 is one more way to take a step the positive draws already   *)
(* give, and for EPSILON = 0 is a step the program may never take.  The    *)
(* greedy runs (EPSILON = 0) are those on the wall-free maze, one          *)
(* behaviour for each choice of hyperparameters.  The exploring runs       *)
(* (EPSILON > 0) are those whose tables stay small: any hyperparameters on *)
(* a grid of zero rewards (no update changes Q) and on that grid with one  *)
(* cell of reward -1 and ALPHA = 1 (only the moves into that cell change   *)
(* Q, each once).                                                          *)

PositiveRands == Rands \ {0}
Flat == [s \in States(GridSide) |-> 0]
Pit == [s \in States(GridSide) |-> IF s = 4 THEN PathReward ELSE 0]

InitLive ==
    /\ InitSolve(<<>>, {Flat, Pit, NoWalls}, PositiveRands)
    /\ rewards = NoWalls <=> EPSILON = 0
    /\ rewards = Pit => ALPHA = 10

\* from every state but the terminal one, down or else right is a valid action
Closer(s) == IF s < GridSide * GridSide - GridSide THEN 1 ELSE 3

\* the exploring branch of take_action draws Closer(s) in state s
ExploreCloser(s) ==
    /\ state = s
    /\ \E rand \in draws : rand <= EPSILON /\ Step(rand, Closer(s))

\* The loops keep running, and np.random.uniform / np.random.choice are fair:
\* when EPSILON > 0, a state visited again and again sees each of its valid
\* actions explored again and again.
SpecLive ==
    /\ InitLive
    /\ [][NextSolve]_vars
    /\ WF_vars(NextSolve)
    /\ \A s \in 0..(GridSide * GridSide - 2) : SF_vars(EPSILON > 0 /\ ExploreCloser(s))

----------------------------------------------------------------------------
(* Properties *)

Adjacent(s, t, n) == Abs((s \div n) - (t \div n)) + Abs((s % n) - (t % n)) = 1

NonTerminal(n) == States(n) \ {Terminal(n)}

Deterministic(p, n) ==
    \A s \in NonTerminal(n) :
        \E t \in States(n) : p[s][t] = PiDen /\ \A u \in States(n) \ {t} : p[s][u] = 0

WallFreeRun == mode = "policy_iteration" /\ rewards = NoWalls /\ GAMMA = 9 /\ DELTA = 1

Returned == mode = "policy_iteration" /\ pc \in {"returned", "walk", "plotted"}

ShortestRoute ==
    /\ Len(route) = 2 * (L - 1) + 1
    /\ route[1] = 0
    /\ route[Len(route)] = Terminal(L)
    /\ \A k \in 1..(Len(route) - 1) : Adjacent(route[k], route[k + 1], L)

\* C1: on the wall-free 3x3 grid with GAMMA = 0.9 and DELTA = 1e-6, policy_iteration
\* returns, the policy it returns is deterministic, and the walk of
\* plot_maze_solution from state 0 along get_actions_from_pi ends in state 8 after
\* exactly 2*(L-1) = 4 moves, each to a horizontally or vertically adjacent cell.
C1_ShortestRoute ==
    /\ WallFreeRun ~> (pc = "plotted")
    /\ [](WallFreeRun /\ Returned => Deterministic(pi, L))
    /\ [](WallFreeRun /\ pc = "plotted" => ShortestRoute)

C1_Witness == WallFreeRun /\ pc = "plotted" /\ state = Terminal(L) /\ Len(route) = 5

\* C2: policy_evaluation returns only when the Euclidean norm of the change of the
\* whole value vector over the last complete sweep (V before the sweep against V
\* after it) is at or below DELTA.
C2_FullSweepNorm ==
    (mode = "policy_iteration" /\ pc = "improve") => ~NormExceeds(Vsweep, V, DELTA, L)

\* a tie-split policy (choose_one=False) and the value vector it was extracted from
TieSplitExtracted ==
    \/ mode = "get_policy_from_V" /\ pc = "extracted" /\ ~choose
    \/ mode = "policy_iteration" /\ pc = "while_pi" /\ iters = 0

\* the distinct next-states of s whose score reward + GAMMA*V is the maximum
BestNext(s) ==
    LET pa == get_possible_actions_for_state(s, L)
        sv == sum_values(s, V, rewards, GAMMA, L)
        top == Max4(sv)
    IN  {pa[k] : k \in {j \in Actions : sv[j] = top}}

\* C3 as stated: with choose_one=False every distinct best next-state of a
\* non-terminal state gets the same probability, and every other state gets 0,
\* border and corner states included.
C3_UniformOverNextStates ==
    TieSplitExtracted =>
        \A s \in NonTerminal(L) :
            LET best == BestNext(s)
            IN  \A t \in States(L) :
                    IF t \in best
                    THEN pi[s][t] > 0 /\ \A u \in best : pi[s][u] = pi[s][t]
                    ELSE pi[s][t] = 0

\* the number of actions that resolve to t from s: the out-of-grid ones for s itself
Share(s, t) == IF t = s THEN Cardinality(get_impossible_actions(s, L)) ELSE 1

\* C3 as amended: with choose_one=False each best next-state gets a probability
\* proportional to the number of actions resolving to it (equal shares, but s
\* itself gets one share per out-of-grid action, two at a corner), and every other
\* state gets 0.
C3_UniformOverActions ==
    TieSplitExtracted =>
        \A s \in NonTerminal(L) :
            LET best == BestNext(s)
                shares == SumTo([u \in States(L) |-> IF u \in best THEN Share(s, u) ELSE 0],
                                NStates(L))
            IN  \A t \in States(L) :
                    IF t \in best
                    THEN pi[s][t] * shares = PiDen * Share(s, t)
                    ELSE pi[s][t] = 0

C3_Witness ==
    /\ TieSplitExtracted
    /\ \E s \in NonTerminal(L) : \E t \in States(L) \ {s} :
          pi[s][t] > 0 /\ pi[s][s] = 2 * pi[s][t]

C5_EveryEpisodeEnds == [](pc = "episode" => <>(state = Terminal(L)))

\* the exploring half of C5 alone: under fair random choices every episode of a
\* run with EPSILON > 0 reaches the terminal state.
ExploringEpisodeEnds == []((pc = "episode" /\ EPSILON > 0) => <>(state = Terminal(L)))

ExploringEpisodeEnded ==
    /\ mode = "solve" /\ pc = "episode" /\ EPSILON > 0 /\ state = Terminal(L)
    /\ last # <<>> /\ last.explored /\ Q # generate_q(L)

\* C6: every step of get_route takes the action argmax Q[state], first of up, down,
\* left, right on ties, whatever the random draw in take_action is.
C6_RouteGreedy ==
    (mode = "solve" /\ pc \in {"route", "routed"} /\ last # <<>>) =>
        last.a = ArgMax4(Q[last.s])

PolicyHeld ==
    \/ mode = "get_policy_from_V" /\ pc = "extracted"
    \/ mode = "policy_iteration"

\* C7: in every policy get_policy_from_V produces, with either choose_one, and in
\* every policy policy_iteration holds, each non-terminal row sums to exactly 1, has
\* all its entries in [0,1], and is non-zero only at clamped neighbours of its state.
C7_RowsAreDistributions ==
    PolicyHeld =>
        \A s \in NonTerminal(L) :
            LET pa == get_possible_actions_for_state(s, L)
            IN  /\ SumTo(pi[s], NStates(L)) = PiDen
                /\ \A t \in States(L) :
                      /\ pi[s][t] \in 0..PiDen
                      /\ pi[s][t] > 0 => \E a \in Actions : pa[a] = t

C7_Witness ==
    /\ mode = "get_policy_from_V" /\ pc = "extracted" /\ ~choose
    /\ \E s \in NonTerminal(L) : Cardinality({t \in States(L) : pi[s][t] > 0}) = 3
    /\ \E s \in NonTerminal(L) : pi[s][s] = 2 * (PiDen \div 3)

\* C8: the terminal state is never written: in policy_iteration V[L*L-1] stays 0
\* and row L*L-1 of pi stays all zeros; in solve the four entries of Q[L*L-1] keep
\* what generate_q gave them and no step has the terminal state as its source.
C8_TerminalUntouched ==
    /\ mode = "policy_iteration" =>
          V[Terminal(L)] = 0 /\ pi[Terminal(L)] = Zeros(L)
    /\ mode = "solve" =>
          /\ Q[Terminal(L)] = generate_q(L)[Terminal(L)]
          /\ last # <<>> => last.s # Terminal(L)

C8_Witness ==
    /\ mode = "solve" /\ pc = "while_q" /\ state = Terminal(L)
    /\ Q # generate_q(L) /\ last.ns = Terminal(L)

\* what C9 says of one state of one grid
TopologyAgrees ==
    /\ DOMAIN topo.clamped = Actions
    /\ \A a \in Actions :
          /\ topo.clamped[a] \in States(L)
          /\ topo.clamped[a] =
                IF a \in topo.possible THEN get_next_state(state, a, L) ELSE state
    /\ Cardinality(topo.possible) \in 2..4
    /\ topo.possible \cup topo.impossible = Actions
    /\ topo.possible \cap topo.impossible = {}

\* C9 as stated: for any odd side L and every state the clamped topology returns 4
\* next-states, an out-of-grid move resolving to the state itself, and the masked
\* topology returns between 2 and 4 actions, which with get_impossible_actions
\* partition {0, 1, 2, 3}.
C9_AnyOddSide == pc = "probed" => TopologyAgrees

\* C9 as amended: the same for any odd side L >= 3.
C9_OddSideFrom3 == (pc = "probed" /\ L >= 3) => TopologyAgrees

C9_Witness ==
    /\ pc = "probed" /\ L = 5 /\ state = L * L - L
    /\ topo.possible = {0, 3} /\ topo.clamped[1] = state /\ topo.clamped[2] = state

\* C10: what policy_iteration returns is a consistent pair: pi is deterministic, pi
\* is the single-choice greedy policy of the returned V, V is what
\* policy_evaluation returned when run under that same pi, and the loop body ran
\* at least once.
C10_ReturnedFixedPoint ==
    Returned =>
        /\ Deterministic(pi, L)
        /\ pi = get_policy_from_V(V, rewards, GAMMA, TRUE, L)
        /\ evalPi = pi
        /\ V = Vret
        /\ iters >= 1

C10_Witness == mode = "policy_iteration" /\ pc = "returned" /\ iters >= 2 /\ V # Zeros(L)

====
